---- MODULE Spec2Model ----
(***************************************************************************)
(* Model of src/renderer/src/native/macos_window_manager.cc: the native    *)
(* addon exporting getScreenInfo and forceWindowOverDock.                  *)
(*                                                                         *)
(* Integers wider than TLC's own are kept as 16-bit limbs: a number is     *)
(* w2 * 2^32 + w1 * 2^16 + w0 with w1, w0 in 0 .. 2^16 - 1 and w2 the      *)
(* signed upper word, so that the narrowing of the JavaScript number to a  *)
(* C int and the widening of that int to NSInteger are computed.           *)
(***************************************************************************)
EXTENDS Integers, Sequences, FiniteSets

VARIABLES
    windows,        \* [NSApp windows]: the application's window list
    screenBounds,   \* CGDisplayBounds(CGMainDisplayID())
    visibleFrame,   \* [[NSScreen mainScreen] visibleFrame]
    fullFrame,      \* [[NSScreen mainScreen] frame]
    pc,             \* position of the calling thread
    args,           \* info[0..] of the current / last forceWindowOverDock call
    windowId,       \* local int windowId of the current / last call
    frame,          \* locals x, y, width, height of that call
    targetWindow,   \* local targetWindow of that call (index in windows, 0 = nil)
    ret,            \* value returned by the last forceWindowOverDock call
    threw,          \* a JavaScript exception is pending after the last call
    op,             \* the exported function called last
    screenInfo,     \* result of the last getScreenInfo call
    pre,            \* windows at entry of the current / last call
    repeat,         \* the current call repeats the previous call's arguments
    prevRet,        \* outcome of the previous call when repeat
    prevInfo,       \* result of the getScreenInfo call before the last one
    forced          \* a window was forced since the last getScreenInfo call

vars == <<windows, screenBounds, visibleFrame, fullFrame, pc, args, windowId,
          frame, targetWindow, ret, threw, op, screenInfo, pre, repeat,
          prevRet, prevInfo, forced>>

display == <<screenBounds, visibleFrame, fullFrame>>
locals == <<windowId, frame, targetWindow>>
screenVars == <<screenInfo, prevInfo>>

\* An absent value is the empty sequence, a present value v is <<v>>.
None == <<>>
Some(v) == <<v>>

\* Value of the locals x, y, width, height outside a call.
NoFrame == [x |-> 0, y |-> 0, width |-> 0, height |-> 0]

----------------------------------------------------------------------------
(* Bounds of the model *)

MaxWindows == 2         \* longest window list under SpecForce
MaxScreenWindows == 1   \* longest window list under Spec
MaxArgs == 6            \* largest info.Length()

----------------------------------------------------------------------------
(* Numbers *)

Two16 == 65536
Two15 == 32768

Num(w2, w1, w0) == [w2 |-> w2, w1 |-> w1, w0 |-> w0]

\* Napi::Number::Int32Value(): the number modulo 2^32 (w2 is dropped), read
\* as a two's-complement 32-bit integer.
Int32Value(n) ==
    IF n.w1 >= Two15 THEN (n.w1 - Two16) * Two16 + n.w0
                     ELSE n.w1 * Two16 + n.w0

\* The usual arithmetic conversion of the int windowId to NSInteger in
\* [window windowNumber] == windowId: sign extension.
ToNSInteger(i) ==
    [w2 |-> IF i < 0 THEN -1 ELSE 0,
     w1 |-> (i \div Two16) % Two16,
     w0 |-> i % Two16]

----------------------------------------------------------------------------
(* Rectangles, windows *)

Rect(x, y, w, h) == [x |-> x, y |-> y, width |-> w, height |-> h]

\* CGWindowLevelForKey(kCGDockWindowLevelKey)
kCGDockWindowLevel == 20

CanJoinAllSpaces == "NSWindowCollectionBehaviorCanJoinAllSpaces"
Stationary == "NSWindowCollectionBehaviorStationary"
IgnoresCycle == "NSWindowCollectionBehaviorIgnoresCycle"
FullScreenPrimary == "NSWindowCollectionBehaviorFullScreenPrimary"

Window(n, l, f, cb, m) ==
    [windowNumber |-> n, level |-> l, frame |-> f,
     collectionBehavior |-> cb, isMovable |-> m]

\* Window numbers: 5, 2^32 + 5, and -1 (a window without a window device
\* has a window number <= 0, so -1 may occur more than once).
WindowNumbers == {Num(0, 0, 5), Num(1, 0, 5), Num(-1, Two16 - 1, Two16 - 1)}

IsPositive(n) == n.w2 >= 0 /\ (n.w2 > 0 \/ n.w1 > 0 \/ n.w0 > 0)

\* How a window may look before the addon touches it.
InitialWindows ==
    { Window(n, 0, Rect(100, 100, 400, 300), {}, FALSE) : n \in WindowNumbers }
    \cup
    { Window(n, 25, Rect(0, 0, 800, 600),
             {CanJoinAllSpaces, FullScreenPrimary}, TRUE) : n \in WindowNumbers }

WindowLists(max) ==
    { ws \in UNION { [1..n -> InitialWindows] : n \in 0..max } :
        \A i, j \in DOMAIN ws :
            (i # j /\ ws[i].windowNumber = ws[j].windowNumber)
                => ~IsPositive(ws[i].windowNumber) }

\* Arguments a caller passes: info[0] a number (5, 9, 2^32 + 5 or -1), then
\* the rectangle, then anything.
WindowIds == WindowNumbers \cup {Num(0, 0, 9)}

Rects == {Rect(0, 0, 800, 600), Rect(10, 20, 300, 200)}

ArgList(n, id, r) ==
    [i \in 1..n |-> IF i = 1 THEN id
                    ELSE IF i = 2 THEN r.x
                    ELSE IF i = 3 THEN r.y
                    ELSE IF i = 4 THEN r.width
                    ELSE IF i = 5 THEN r.height
                    ELSE 0]

ArgLists == { ArgList(n, id, r) : n \in 0..MaxArgs, id \in WindowIds, r \in Rects }

\* Display configurations: the primary display (the one CGMainDisplayID names)
\* and the screen holding the key window ([NSScreen mainScreen]), which is the
\* primary display or a second, wider display above it; the dock is hidden
\* or at the bottom of that screen, the menu bar at its top.
PrimaryBounds == Rect(0, 0, 8, 6)

MainScreenFrames == {PrimaryBounds, Rect(0, 6, 10, 4)}

DockPlaces == {"hidden", "bottom"}

VisibleFrameOf(f, dock) ==
    IF dock = "bottom" THEN Rect(f.x, f.y + 2, f.width, f.height - 3)
    ELSE Rect(f.x, f.y, f.width, f.height - 1)

----------------------------------------------------------------------------
(* Initial states *)

InitCall ==
    /\ pc = "idle"
    /\ args = <<>>
    /\ windowId = 0
    /\ frame = NoFrame
    /\ targetWindow = 0
    /\ ret = None
    /\ threw = FALSE
    /\ op = "none"
    /\ screenInfo = None
    /\ pre = windows
    /\ repeat = FALSE
    /\ prevRet = None
    /\ prevInfo = None
    /\ forced = FALSE

Init ==
    /\ windows \in WindowLists(MaxScreenWindows)
    /\ screenBounds = PrimaryBounds
    /\ fullFrame \in MainScreenFrames
    /\ \E dock \in DockPlaces : visibleFrame = VisibleFrameOf(fullFrame, dock)
    /\ InitCall

InitForce ==
    /\ windows \in WindowLists(MaxWindows)
    /\ screenBounds = PrimaryBounds
    /\ fullFrame = PrimaryBounds
    /\ visibleFrame = VisibleFrameOf(PrimaryBounds, "bottom")
    /\ InitCall

----------------------------------------------------------------------------
(* getScreenInfo *)

\* Mutant of ScreenInfo: the dock height measured against the display bounds.
ScreenInfoFromBounds(bounds, visible, full) ==
    [screen |-> bounds,
     visible |-> visible,
     dockHeight |-> bounds.height - visible.height - visible.y]

ScreenInfo(bounds, visible, full) ==
    [screen |-> bounds,
     visible |-> visible,
     dockHeight |-> full.height - visible.height - visible.y]

\* Mutant of GetScreenInfo: the visible area read from the first window of
\* the application instead of the screen.
GetScreenInfoOfWindow ==
    /\ pc = "idle"
    /\ screenInfo' = Some(ScreenInfo(screenBounds,
                                     IF Len(windows) > 0 THEN windows[1].frame
                                                         ELSE visibleFrame,
                                     fullFrame))
    /\ prevInfo' = IF screenInfo = None THEN None
                   ELSE Some([result |-> screenInfo[1], forcedSince |-> forced])
    /\ forced' = FALSE
    /\ op' = "getScreenInfo"
    /\ pre' = windows
    /\ repeat' = FALSE
    /\ prevRet' = None
    /\ UNCHANGED <<windows, display, pc, args, locals, ret, threw>>

GetScreenInfo ==
    /\ pc = "idle"
    /\ screenInfo' = Some(ScreenInfo(screenBounds, visibleFrame, fullFrame))
    /\ prevInfo' = IF screenInfo = None THEN None
                   ELSE Some([result |-> screenInfo[1], forcedSince |-> forced])
    /\ forced' = FALSE
    /\ op' = "getScreenInfo"
    /\ pre' = windows
    /\ repeat' = FALSE
    /\ prevRet' = None
    /\ UNCHANGED <<windows, display, pc, args, locals, ret, threw>>

----------------------------------------------------------------------------
(* forceWindowOverDock *)

\* Mutant of ForceWindowOverDock: too few arguments return false without
\* throwing.
ForceWindowOverDockNoThrow(argv) ==
    /\ pc = "idle"
    /\ args' = argv
    /\ op' = "forceWindowOverDock"
    /\ pre' = windows
    /\ repeat' = (op = "forceWindowOverDock" /\ argv = args)
    /\ prevRet' = IF repeat' THEN Some([ret |-> ret, threw |-> threw]) ELSE None
    /\ IF Len(argv) < 5
         THEN /\ threw' = FALSE
              /\ ret' = Some(FALSE)
              /\ pc' = "idle"
         ELSE /\ threw' = FALSE
              /\ ret' = None
              /\ pc' = "L54"
    /\ windowId' = 0
    /\ frame' = NoFrame
    /\ targetWindow' = 0
    /\ UNCHANGED <<windows, display, screenVars, forced>>

\* Mutant of ForceWindowOverDock: any argument count other than 5 throws.
ForceWindowOverDockExactlyFive(argv) ==
    /\ pc = "idle"
    /\ args' = argv
    /\ op' = "forceWindowOverDock"
    /\ pre' = windows
    /\ repeat' = (op = "forceWindowOverDock" /\ argv = args)
    /\ prevRet' = IF repeat' THEN Some([ret |-> ret, threw |-> threw]) ELSE None
    /\ IF Len(argv) # 5
         THEN /\ threw' = TRUE
              /\ ret' = Some(FALSE)
              /\ pc' = "idle"
         ELSE /\ threw' = FALSE
              /\ ret' = None
              /\ pc' = "L54"
    /\ windowId' = 0
    /\ frame' = NoFrame
    /\ targetWindow' = 0
    /\ UNCHANGED <<windows, display, screenVars, forced>>

\* Lines 45-51: entry and the argument count check.
ForceWindowOverDock(argv) ==
    /\ pc = "idle"
    /\ args' = argv
    /\ op' = "forceWindowOverDock"
    /\ pre' = windows
    /\ repeat' = (op = "forceWindowOverDock" /\ argv = args)
    /\ prevRet' = IF repeat' THEN Some([ret |-> ret, threw |-> threw]) ELSE None
    /\ IF Len(argv) < 5
         THEN /\ threw' = TRUE
              /\ ret' = Some(FALSE)
              /\ pc' = "idle"
         ELSE /\ threw' = FALSE
              /\ ret' = None
              /\ pc' = "L54"
    /\ windowId' = 0
    /\ frame' = NoFrame
    /\ targetWindow' = 0
    /\ UNCHANGED <<windows, display, screenVars, forced>>

\* Lines 54-58.
GetParameters ==
    /\ pc = "L54"
    /\ windowId' = Int32Value(args[1])
    /\ frame' = Rect(args[2], args[3], args[4], args[5])
    /\ pc' = "L62"
    /\ UNCHANGED <<windows, display, args, targetWindow, ret, threw, op,
                   screenVars, pre, repeat, prevRet, forced>>

\* Lines 65-70: index of the first window whose number equals id, 0 for nil.
RECURSIVE Scan(_, _, _)
Scan(ws, i, id) ==
    IF i > Len(ws) THEN 0
    ELSE IF ws[i].windowNumber = ToNSInteger(id) THEN i
    ELSE Scan(ws, i + 1, id)

\* Lines 62-74.
FindWindow ==
    /\ pc = "L62"
    /\ LET t == Scan(windows, 1, windowId) IN
         IF t = 0
           THEN /\ targetWindow' = 0
                /\ ret' = Some(FALSE)
                /\ pc' = "idle"
           ELSE /\ targetWindow' = t
                /\ pc' = "L77"
                /\ UNCHANGED ret
    /\ UNCHANGED <<windowId, frame>>
    /\ UNCHANGED <<windows, display, args, threw, op, screenVars, pre,
                   repeat, prevRet, forced>>

ForceStep(next) ==
    /\ pc' = next
    /\ UNCHANGED <<display, args, locals, ret, threw, op, screenVars, pre,
                   repeat, prevRet, forced>>

\* Line 77.
SetLevel ==
    /\ pc = "L77"
    /\ windows' = [windows EXCEPT ![targetWindow].level = kCGDockWindowLevel + 1]
    /\ ForceStep("L80")

\* Mutant of SetFrame: the rectangle taken relative to the window's origin.
SetFrameRelative ==
    /\ pc = "L80"
    /\ windows' = [windows EXCEPT ![targetWindow].frame =
                        [frame EXCEPT !.x = @ + windows[targetWindow].frame.x,
                                      !.y = @ + windows[targetWindow].frame.y]]
    /\ ForceStep("L84")

\* Lines 80-81.
SetFrame ==
    /\ pc = "L80"
    /\ windows' = [windows EXCEPT ![targetWindow].frame = frame]
    /\ ForceStep("L84")

\* Mutant of SetCollectionBehavior: the flags or-ed into the present ones.
SetCollectionBehaviorMerge ==
    /\ pc = "L84"
    /\ windows' = [windows EXCEPT ![targetWindow].collectionBehavior =
                        @ \cup {CanJoinAllSpaces, Stationary, IgnoresCycle}]
    /\ ForceStep("L89")

\* Lines 84-86.
SetCollectionBehavior ==
    /\ pc = "L84"
    /\ windows' = [windows EXCEPT ![targetWindow].collectionBehavior =
                        {CanJoinAllSpaces} \cup {Stationary} \cup {IgnoresCycle}]
    /\ ForceStep("L89")

\* Line 89.
SetMovable ==
    /\ pc = "L89"
    /\ windows' = [windows EXCEPT ![targetWindow].isMovable = FALSE]
    /\ ForceStep("L91")

\* Line 91.
ReturnTrue ==
    /\ pc = "L91"
    /\ ret' = Some(TRUE)
    /\ pc' = "idle"
    /\ forced' = (forced \/ screenInfo # None)
    /\ UNCHANGED <<windows, display, args, locals, threw, op, screenVars, pre,
                   repeat, prevRet>>

----------------------------------------------------------------------------
(* Specifications *)

NextForce ==
    \/ \E argv \in ArgLists : ForceWindowOverDock(argv)
    \/ GetParameters
    \/ FindWindow
    \/ SetLevel
    \/ SetFrame
    \/ SetCollectionBehavior
    \/ SetMovable
    \/ ReturnTrue

Next ==
    \/ GetScreenInfo
    \/ NextForce

Spec == Init /\ [][Next]_vars

SpecForce == InitForce /\ [][NextForce]_vars

----------------------------------------------------------------------------
(* Properties *)

\* A forceWindowOverDock call has just returned to its caller.
Returned == pc = "idle" /\ op = "forceWindowOverDock"

\* The rectangle the caller asked for (args has at least 5 elements).
Requested == Rect(args[2], args[3], args[4], args[5])

\* The windows that had the number the caller supplied when the call began.
Matching == { i \in DOMAIN pre : pre[i].windowNumber = args[1] }

FirstMatching == CHOOSE i \in Matching : \A j \in Matching : i <= j

ForcedBehavior == {CanJoinAllSpaces, Stationary, IgnoresCycle}

\* C1: a forceWindowOverDock call with fewer than 5 arguments raises a
\* TypeError and changes no attribute of any window, whatever the arguments.
C1_TooFewArguments ==
    (Returned /\ Len(args) < 5) => (threw /\ windows = pre)

\* Witness of C1: a call with 4 arguments, the first the number of a window
\* in the list, has thrown.
C1_Witness ==
    /\ Returned
    /\ Len(args) = 4
    /\ threw
    /\ \E i \in DOMAIN windows : windows[i].windowNumber = args[1]

\* C2 as stated: a call with 5 arguments whose window identifier is the number
\* of no window in the list returns false, raises no error and changes no
\* window.
C2_NoMatchReturnsFalse ==
    (Returned /\ Len(args) = 5 /\ Matching = {})
        => (ret = Some(FALSE) /\ ~threw /\ windows = pre)

\* C3 as stated: a call with the identifier of a window in the list and any
\* rectangle returns true, and that window's frame is then the rectangle.
C3_MatchSetsFrame ==
    (Returned /\ Len(args) >= 5 /\ Matching # {})
        => (ret = Some(TRUE) /\ windows[FirstMatching].frame = Requested)

\* C4: forceWindowOverDock is idempotent: after a second call with the same
\* arguments right after the first, all windows are as the first call left
\* them and the same value is returned (or the same error raised).
C4_Idempotent ==
    (Returned /\ repeat)
        => (windows = pre /\ prevRet = Some([ret |-> ret, threw |-> threw]))

\* Witness of C4: a repeated call has returned true.
C4_Witness ==
    /\ Returned
    /\ repeat
    /\ ret = Some(TRUE)
    /\ Requested.x # 0

\* C5 as stated: every call whose argument count differs from 5, fewer or
\* more, raises an error instead of looking up or mutating a window.
C5_ExactlyFive ==
    (op = "forceWindowOverDock" /\ Len(args) # 5)
        => (pc = "idle" /\ threw /\ targetWindow = 0 /\ windows = pre)

\* C5 amended: every call with fewer than 5 arguments raises an error instead
\* of looking up or mutating a window; a call with more than 5 arguments
\* raises none and proceeds like a call with its first 5 arguments.
C5_AtLeastFive ==
    /\ (op = "forceWindowOverDock" /\ Len(args) < 5)
          => (pc = "idle" /\ threw /\ targetWindow = 0 /\ windows = pre)
    /\ (op = "forceWindowOverDock" /\ Len(args) > 5) => ~threw
    /\ (Returned /\ Len(args) > 5)
          => /\ ret = Some(targetWindow # 0)
             /\ targetWindow # 0 => windows[targetWindow].frame = Requested

\* Witness of C5: a call with 6 arguments has forced a window.
C5_Witness ==
    /\ Returned
    /\ Len(args) = 6
    /\ ret = Some(TRUE)
    /\ windows # pre

\* C6: getScreenInfo is a pure read: a call changes no window and nothing of
\* the display, and returns what the call before it returned, the display
\* being the same, also with forceWindowOverDock calls in between.
C6_PureRead ==
    [][op' = "getScreenInfo"
         => /\ windows' = windows
            /\ display' = display
            /\ screenInfo # None => screenInfo' = screenInfo]_vars

\* Witness of C6: a second getScreenInfo call has returned, and a window was
\* forced between the two calls.
C6_Witness ==
    /\ op = "getScreenInfo"
    /\ prevInfo # None
    /\ prevInfo[1].forcedSince
    /\ prevInfo[1].result = screenInfo[1]

\* The rectangle inner lies inside the rectangle outer.
Inside(inner, outer) ==
    /\ outer.x <= inner.x
    /\ outer.y <= inner.y
    /\ inner.x + inner.width <= outer.x + outer.width
    /\ inner.y + inner.height <= outer.y + outer.height

\* C7 as stated: whenever the visible frame lies inside the full frame, the
\* result of getScreenInfo has visible.width <= screen.width,
\* visible.height <= screen.height and dockHeight >= 0.
C7_VisibleWithinScreen ==
    (screenInfo # None /\ Inside(visibleFrame, fullFrame))
        => /\ screenInfo[1].visible.width <= screenInfo[1].screen.width
           /\ screenInfo[1].visible.height <= screenInfo[1].screen.height
           /\ screenInfo[1].dockHeight >= 0

\* C8: the dockHeight getScreenInfo returns is fullFrame.height -
\* visibleFrame.height - visibleFrame.y of the main screen, not of the display
\* bounds, and the visible field is that visibleFrame.
C8_DockHeightFormula ==
    screenInfo # None
        => /\ screenInfo[1].dockHeight
                = fullFrame.height - visibleFrame.height - visibleFrame.y
           /\ screenInfo[1].visible = visibleFrame
           /\ screenInfo[1].screen = screenBounds

\* Witness of C8: a result whose dockHeight differs from what the display
\* bounds would give.
C8_Witness ==
    /\ screenInfo # None
    /\ screenInfo[1].screen # fullFrame
    /\ screenInfo[1].dockHeight
          # screenBounds.height - visibleFrame.height - visibleFrame.y

\* The target window as the call found it, with the first n mutations applied.
Mutated(n) ==
    [pre EXCEPT ![targetWindow] =
        [level |-> IF n >= 1 THEN kCGDockWindowLevel + 1 ELSE @.level,
         frame |-> IF n >= 2 THEN frame ELSE @.frame,
         collectionBehavior |-> IF n >= 3 THEN ForcedBehavior
                                ELSE @.collectionBehavior,
         isMovable |-> IF n >= 4 THEN FALSE ELSE @.isMovable,
         windowNumber |-> @.windowNumber]]

\* C9: on a match the level, the frame, the collection behavior and the
\* movability of the target window are set in this order, each to its value
\* (the behavior to exactly the three flags), and true is returned after all
\* four.
C9_MutationOrder ==
    /\ pc = "L77" => windows = Mutated(0)
    /\ pc = "L80" => windows = Mutated(1)
    /\ pc = "L84" => windows = Mutated(2)
    /\ pc = "L89" => windows = Mutated(3)
    /\ pc = "L91" => windows = Mutated(4)
    /\ (Returned /\ ret = Some(TRUE))
          => /\ windows = Mutated(4)
             /\ windows[targetWindow].level = kCGDockWindowLevel + 1
             /\ windows[targetWindow].collectionBehavior = ForcedBehavior
             /\ windows[targetWindow].isMovable = FALSE

\* Witness of C9: the level and the frame of the target are set, its behavior
\* and movability are not yet, and each of the four differs from its value to
\* be.
C9_Witness ==
    /\ pc = "L84"
    /\ pre[targetWindow].level # kCGDockWindowLevel + 1
    /\ pre[targetWindow].frame # frame
    /\ windows[targetWindow].collectionBehavior \ ForcedBehavior # {}
    /\ windows[targetWindow].isMovable

\* C10 as stated: a call mutates at most one window, the first in the list
\* whose number equals the identifier supplied; a window whose number differs
\* from the supplied value is never mutated.
C10_OnlyFirstMatch ==
    \A i \in DOMAIN windows :
        windows[i] # pre[i] => (Matching # {} /\ i = FirstMatching)

====
